---- MODULE Spec2Model ----
(***************************************************************************)
(* Support-ticket pipeline: cli.main drives run_pipeline over a batch of   *)
(* tickets; run_pipeline sequences triage -> research (bounded retry loop) *)
(* -> drafter.                                                             *)
(*                                                                         *)
(* Conventions.                                                            *)
(*   - A Python dict is a function whose DOMAIN is the set of keys that    *)
(*     are present; {} is the empty function << >>.                        *)
(*   - A Python str is a sequence of one-character strings; "" is << >>.   *)
(*   - An Optional[str] slot holds None or Str(s).                         *)
(*   - A call that raises is modelled by the value Raise(type) in place of *)
(*     the returned value.                                                 *)
(*   - Similarity scores are integers in units of 1/10000 (0.5 is 5000).   *)
(*   - Strings that are only compared (categories, source ids of the       *)
(*     pipeline's sample hits) are TLA+ strings; under SpecResearch a      *)
(*     match's source_id is its position in the payload.                   *)
(***************************************************************************)
EXTENDS Integers, Sequences, FiniteSets, TLC

VARIABLES
    pc,               \* control point: "main" | "triage" | "research" | "draft" | "exit" | "crashed"
    tickets,          \* cli.main: the batch selected by --id / --limit / default
    idx,              \* cli.main: 1-based position of the for loop over tickets
    results,          \* cli.main: results list (one Pipeline Result per returned call)
    result,           \* run_pipeline local: the result dict under construction
    triage_result,    \* run_pipeline local
    search_query,     \* run_pipeline local: None or Str(s)
    research_result,  \* run_pipeline local: {} before the first attempt
    attempt,          \* run_pipeline local: the for-loop variable
    exc,              \* the exception that left run_pipeline (None while none did)
    log,              \* history: collaborator calls of the current run_pipeline invocation
    rin,              \* research() taken alone: its input
    rout,             \* research() taken alone: its output
    col,              \* VectorStore._col: the records of the Chroma collection
    kpc,              \* build(): "off" | "idle" | "faqs" | "tickets"
    kop,              \* history: the last call made on the store, with its arguments
    kout,             \* history: what that call returned or raised
    kold,             \* history: the collection as it was when the running build() began ({} while none runs)
    upserted          \* history: the source ids upserted since the last wipe

vars == << pc, tickets, idx, results, result, triage_result, search_query,
           research_result, attempt, exc, log, rin, rout,
           col, kpc, kop, kout, kold, upserted >>

kbVars == << col, kpc, kop, kout, kold, upserted >>

pipeVars == << pc, tickets, idx, results, result, triage_result, search_query,
               research_result, attempt, exc, log >>

(***************************************************************************)
(* Program constants                                                       *)
(***************************************************************************)
MAX_RETRIES == 2

SIMILARITY_THRESHOLD == 5000

MIN_STRONG_MATCHES == 2

(***************************************************************************)
(* Bounds of the model                                                     *)
(***************************************************************************)
\* number of tickets in the test-ticket file
NumTickets == 2

\* longest matches list a judgment-layer payload carries (research() alone)
MaxMatches == 3

\* the history log stops recording (and the step that would extend it is
\* disabled) at this length; the program itself never gets there
MaxLog == 6

(***************************************************************************)
(* Python values                                                           *)
(***************************************************************************)
None == [NoneType |-> TRUE]

Str(s) == [str |-> s]

EmptyDict == << >>

Raise(type) == [exception |-> type]

IsRaise(v) == "exception" \in DOMAIN v

\* the store while no specification exercises it: an empty collection
KbAtRest ==
    /\ col = {}
    /\ kpc = "off"
    /\ kop = None
    /\ kout = None
    /\ kold = {}
    /\ upserted = {}

\* dict.get(k, default)
Get(d, k, default) == IF k \in DOMAIN d THEN d[k] ELSE default

\* dict.setdefault(k, v), as the dict it leaves behind
SetDefault(d, k, v) ==
    IF k \in DOMAIN d THEN d
    ELSE [y \in (DOMAIN d) \cup {k} |-> IF y = k THEN v ELSE d[y]]

\* d[k] = v, as the dict it leaves behind
SetItem(d, k, v) == [y \in (DOMAIN d) \cup {k} |-> IF y = k THEN v ELSE d[y]]

(***************************************************************************)
(* str operations                                                          *)
(***************************************************************************)
Space == " "

RECURSIVE LStrip(_)
LStrip(s) == IF s # << >> /\ Head(s) = Space THEN LStrip(Tail(s)) ELSE s

RECURSIVE RStrip(_)
RStrip(s) ==
    IF s # << >> /\ s[Len(s)] = Space THEN RStrip(SubSeq(s, 1, Len(s) - 1)) ELSE s

\* str.strip()
Strip(s) == RStrip(LStrip(s))

\* " ".join(terms)
RECURSIVE Join(_)
Join(terms) ==
    IF terms = << >> THEN << >>
    ELSE IF Len(terms) = 1 THEN terms[1]
    ELSE terms[1] \o << Space >> \o Join(Tail(terms))

\* str.split(): the maximal runs of non-whitespace, in order
RECURSIVE SplitFrom(_, _, _)
SplitFrom(s, word, acc) ==
    IF s = << >> THEN (IF word = << >> THEN acc ELSE Append(acc, word))
    ELSE IF Head(s) = Space
         THEN SplitFrom(Tail(s), << >>, IF word = << >> THEN acc ELSE Append(acc, word))
         ELSE SplitFrom(Tail(s), Append(word, Head(s)), acc)

Split(s) == SplitFrom(s, << >>, << >>)

\* seq[:n]
Take(seq, n) == SubSeq(seq, 1, IF Len(seq) < n THEN Len(seq) ELSE n)

\* truthiness of an Optional[str]
StrTruthy(q) == q # None /\ q.str # << >>

(***************************************************************************)
(* Collaborator responses.  A chat/messages API call either raises or      *)
(* returns a response whose text content is None, has no {...} span, has a *)
(* {...} span that is not valid JSON, or has one that parses to a dict.    *)
(***************************************************************************)
NoContent == None

NoJsonText == [text |-> "no_json"]

BadJsonText == [text |-> "bad_json"]

JsonText(payload) == [text |-> "json", payload |-> payload]

Response(content) == [content |-> content]

\* _extract_json (the same function in triage.py, research.py and drafter.py)
extract_json(content) ==
    IF content = None THEN Raise("TypeError")
    ELSE IF content.text = "no_json" THEN Raise("ValueError")
    ELSE IF content.text = "bad_json" THEN Raise("JSONDecodeError")
    ELSE content.payload

(***************************************************************************)
(* triage.py                                                               *)
(***************************************************************************)
\* variant of triage: is_spam is never set
triage_never_spam(ticket, response) ==
    IF IsRaise(response) THEN response
    ELSE LET parsed == extract_json(response.content) IN
         IF IsRaise(parsed) THEN parsed
         ELSE LET r1 == SetDefault(parsed, "category", "general")
                  r2 == SetDefault(r1, "priority", "medium")
                  r3 == SetDefault(r2, "reasoning", "")
              IN  SetItem(r3, "is_spam", FALSE)

\* variant of triage: the default category is taken for spam too
triage_general_is_spam(ticket, response) ==
    IF IsRaise(response) THEN response
    ELSE LET parsed == extract_json(response.content) IN
         IF IsRaise(parsed) THEN parsed
         ELSE LET r1 == SetDefault(parsed, "category", "general")
                  r2 == SetDefault(r1, "priority", "medium")
                  r3 == SetDefault(r2, "reasoning", "")
              IN  SetItem(r3, "is_spam", r3.category \in { "spam", "general" })
triage(ticket, response) ==
    IF IsRaise(response) THEN response
    ELSE LET parsed == extract_json(response.content) IN
         IF IsRaise(parsed) THEN parsed
         ELSE LET r1 == SetDefault(parsed, "category", "general")
                  r2 == SetDefault(r1, "priority", "medium")
                  r3 == SetDefault(r2, "reasoning", "")
              IN  SetItem(r3, "is_spam", r3.category = "spam")

(***************************************************************************)
(* research.py                                                             *)
(***************************************************************************)
\* m.get("stale") taken as a condition
MatchStale(m) == Get(m, "stale", FALSE) = TRUE

\* variant of HasEnoughInfo: stale matches count too
HasEnoughInfo_counts_stale(matches) ==
    Cardinality({ i \in DOMAIN matches :
                    Get(matches[i], "similarity_score", 0) >= SIMILARITY_THRESHOLD })
        >= MIN_STRONG_MATCHES

\* strong = sum(...); result["has_enough_info"] = strong >= MIN_STRONG_MATCHES
HasEnoughInfo(matches) ==
    Cardinality({ i \in DOMAIN matches :
                    /\ ~MatchStale(matches[i])
                    /\ Get(matches[i], "similarity_score", 0) >= SIMILARITY_THRESHOLD })
        >= MIN_STRONG_MATCHES

\* variant of StaleIds: the ids of all matches that have one
RECURSIVE StaleIds_all(_)
StaleIds_all(matches) ==
    IF matches = << >> THEN << >>
    ELSE IF "source_id" \in DOMAIN Head(matches)
         THEN << Head(matches).source_id >> \o StaleIds_all(Tail(matches))
         ELSE StaleIds_all(Tail(matches))
\* [m["source_id"] for m in result["matches"] if m.get("stale")]
RECURSIVE StaleIds(_)
StaleIds(matches) ==
    IF matches = << >> THEN << >>
    ELSE IF MatchStale(Head(matches))
         THEN << Head(matches).source_id >> \o StaleIds(Tail(matches))
         ELSE StaleIds(Tail(matches))

\* base_query = f"{subject} {body}".strip()
BaseQuery(ticket) ==
    Strip(Get(ticket, "subject", << >>) \o << Space >> \o Get(ticket, "body", << >>))

\* query = search_query or base_query
QueryOf(ticket, sq) == IF StrTruthy(sq) THEN sq.str ELSE BaseQuery(ticket)

\* variant of research: result["matches"] is read without a default
research_requires_matches(ticket, sq, response) ==
    IF IsRaise(response) THEN response
    ELSE LET parsed == extract_json(response.content) IN
         IF IsRaise(parsed) THEN parsed
         ELSE IF "matches" \notin DOMAIN parsed THEN Raise("KeyError")
         ELSE LET r2 == SetDefault(parsed, "suggested_search_terms", << >>)
                  r3 == SetItem(r2, "search_terms_used", Take(Split(QueryOf(ticket, sq)), 6))
                  r4 == SetItem(r3, "has_enough_info", HasEnoughInfo(r3.matches))
              IN  IF \E i \in DOMAIN r4.matches :
                         MatchStale(r4.matches[i]) /\ "source_id" \notin DOMAIN r4.matches[i]
                  THEN Raise("KeyError")
                  ELSE SetItem(r4, "stale_ids", StaleIds(r4.matches))

research(ticket, sq, response) ==
    IF IsRaise(response) THEN response
    ELSE LET parsed == extract_json(response.content) IN
         IF IsRaise(parsed) THEN parsed
         ELSE LET r1 == SetDefault(parsed, "matches", << >>)
                  r2 == SetDefault(r1, "suggested_search_terms", << >>)
                  r3 == SetItem(r2, "search_terms_used", Take(Split(QueryOf(ticket, sq)), 6))
                  r4 == SetItem(r3, "has_enough_info", HasEnoughInfo(r3.matches))
              IN  IF \E i \in DOMAIN r4.matches :
                         MatchStale(r4.matches[i]) /\ "source_id" \notin DOMAIN r4.matches[i]
                  THEN Raise("KeyError")
                  ELSE SetItem(r4, "stale_ids", StaleIds(r4.matches))

(***************************************************************************)
(* drafter.py                                                              *)
(***************************************************************************)
drafter(ticket, triage_res, research_res, response) ==
    LET matches == Get(research_res, "matches", << >>) IN
    IF \E i \in DOMAIN matches : "content_snippet" \notin DOMAIN matches[i]
    THEN Raise("KeyError")
    ELSE IF IsRaise(response) THEN response
    ELSE LET parsed == extract_json(response.content) IN
         IF IsRaise(parsed) THEN parsed
         ELSE LET r1 == SetDefault(parsed, "response_text", "")
                  r2 == SetDefault(r1, "sources_used", << >>)
              IN  SetDefault(r2, "stale_warning", FALSE)

(***************************************************************************)
(* Inputs                                                                  *)
(***************************************************************************)
\* the test-ticket file: ticket i has a subject unless i is even and a body
\* unless i is a multiple of three
Ticket(i) ==
    [id |-> i,
     subject |-> IF i % 2 = 1 THEN << "s" >> ELSE << >>,
     body |-> IF i % 3 = 0 THEN << >> ELSE << "b" >>]

AllTickets == [i \in 1..NumTickets |-> Ticket(i)]

\* cli.main: --id keeps the one ticket of that id, --limit n the first n,
\* neither keeps them all
Batches ==
    { << AllTickets[i] >> : i \in 1..NumTickets }
        \cup { SubSeq(AllTickets, 1, n) : n \in 1..NumTickets }

Match(id, score, stale) ==
    [source_id |-> id, content_snippet |-> "snippet", similarity_score |-> score,
     source_type |-> "kb", stale |-> stale]

\* top hits [faq-1 0.82, ticket-9 (stale) 0.75, faq-2 0.40]
HitsInsufficient ==
    << Match("faq-1", 8200, FALSE), Match("ticket-9", 7500, TRUE),
       Match("faq-2", 4000, FALSE) >>

\* top hits [faq-1 0.9, faq-2 0.6], neither stale
HitsSufficient == << Match("faq-1", 9000, FALSE), Match("faq-2", 6000, FALSE) >>

\* what the judgment layer may answer to a research call of the pipeline
JudgePayloads ==
    { EmptyDict,
      [matches |-> HitsInsufficient, suggested_search_terms |-> << << "a" >>, << "b" >> >>],
      [matches |-> HitsInsufficient, suggested_search_terms |-> << << >> >>],
      [matches |-> HitsSufficient, suggested_search_terms |-> << << "a" >> >>] }

JudgeResponses ==
    { Raise("APIError"), Response(NoJsonText) }
        \cup { Response(JsonText(p)) : p \in JudgePayloads }

TriageResponses ==
    { Raise("APIError"), Response(NoJsonText),
      Response(JsonText([category |-> "spam", priority |-> "low"])),
      Response(JsonText([category |-> "billing", priority |-> "high"])),
      Response(JsonText(EmptyDict)) }

DraftResponses ==
    { Raise("APIError"), Response(BadJsonText),
      Response(JsonText([response_text |-> "reply"])) }

(***************************************************************************)
(* orchestrator.py: run_pipeline                                           *)
(***************************************************************************)
\* result: dict = {...}
NewResult(ticket) ==
    [ticket |-> ticket, triage |-> None, research |-> None, draft |-> None,
     skipped |-> FALSE, retries |-> 0]

\* variant of NextQuery: with no terms the previous query is kept
NextQuery_keeps_old_query(att, sq, research_res) ==
    IF att > 0
    THEN LET terms == Get(research_res, "suggested_search_terms", << >>)
         IN  IF terms # << >> THEN Str(Join(terms)) ELSE sq
    ELSE sq

\* if attempt > 0: terms = ...; search_query = " ".join(terms) if terms else None
NextQuery(att, sq, research_res) ==
    IF att > 0
    THEN LET terms == Get(research_res, "suggested_search_terms", << >>)
         IN  IF terms # << >> THEN Str(Join(terms)) ELSE None
    ELSE sq

\* variant of LoopContinues: range(MAX_RETRIES + 2)
LoopContinues_one_more(att, enough) == ~enough /\ att + 1 < MAX_RETRIES + 2

\* variant of LoopContinues: no break on enough
LoopContinues_ignores_enough(att, enough) == att + 1 < MAX_RETRIES + 1

\* variant of LoopContinues: retry until enough
LoopContinues_unbounded(att, enough) == ~enough

\* variant of LoopContinues: range(MAX_RETRIES)
LoopContinues_one_less(att, enough) == ~enough /\ att + 1 < MAX_RETRIES
\* for attempt in range(MAX_RETRIES + 1): ... if enough: break
LoopContinues(att, enough) == ~enough /\ att + 1 < MAX_RETRIES + 1

\* variant of Finalize: the outcome is stored only when it is sufficient
Finalize_only_if_enough(res, research_res, att) ==
    [res EXCEPT !.research = IF Get(research_res, "has_enough_info", FALSE)
                             THEN research_res ELSE None,
                !.retries = att]

\* variant of Finalize: retries counts the attempts
Finalize_counts_attempts(res, research_res, att) ==
    [res EXCEPT !.research = research_res, !.retries = att + 1]

\* result["research"] = research_result; result["retries"] = attempt
Finalize(res, research_res, att) ==
    [res EXCEPT !.research = research_res, !.retries = att]

\* variant of RetryState: the loop starts from what the last returned result left
RetryState_of_last_result ==
    IF results = << >> \/ results[Len(results)].research = None
    THEN [search_query |-> None, research_result |-> EmptyDict, attempt |-> 0]
    ELSE [search_query |-> None,
          research_result |-> results[Len(results)].research,
          attempt |-> results[Len(results)].retries]

\* search_query = None; research_result = {}; the for loop starts at attempt 0
RetryState == [search_query |-> None, research_result |-> EmptyDict, attempt |-> 0]
\* the frame of run_pipeline is gone: its locals hold nothing
NoFrame ==
    /\ result' = None
    /\ triage_result' = None
    /\ search_query' = None
    /\ research_result' = EmptyDict
    /\ attempt' = 0

\* variant of Propagate: the exception is caught and the partial result returned
Propagate_returns_partial(e) ==
    /\ results' = Append(results, result)
    /\ idx' = idx + 1
    /\ pc' = "main"
    /\ NoFrame
    /\ UNCHANGED << tickets, exc >>

\* an exception leaves run_pipeline and, uncaught in cli.main, ends the run
Propagate(e) ==
    /\ exc' = e
    /\ pc' = "crashed"
    /\ NoFrame
    /\ UNCHANGED << tickets, idx, results >>

\* run_pipeline returns res; cli.main prints it, appends it and moves on
Return(res) ==
    /\ results' = Append(results, res)
    /\ idx' = idx + 1
    /\ pc' = "main"
    /\ NoFrame
    /\ UNCHANGED << tickets, exc >>

\* cli.main calls run_pipeline for the next ticket
CallPipeline ==
    /\ pc = "main"
    /\ idx <= Len(tickets)
    /\ result' = NewResult(tickets[idx])
    /\ pc' = "triage"
    /\ log' = << >>
    /\ UNCHANGED << tickets, idx, results, triage_result, search_query,
                    research_result, attempt, exc, rin, rout, kbVars >>

\* Step 1: triage, and the spam short-circuit
Triage ==
    /\ pc = "triage"
    /\ \E response \in TriageResponses :
         LET t == triage(result.ticket, response) IN
         /\ log' = Append(log, [fn |-> "triage", ret |-> t])
         /\ IF IsRaise(t) THEN Propagate(t)
            ELSE IF t.is_spam
            THEN Return([result EXCEPT !.triage = t, !.skipped = TRUE])
            ELSE /\ result' = [result EXCEPT !.triage = t]
                 /\ triage_result' = t
                 /\ search_query' = RetryState.search_query
                 /\ research_result' = RetryState.research_result
                 /\ attempt' = RetryState.attempt
                 /\ pc' = "research"
                 /\ UNCHANGED << tickets, idx, results, exc >>
    /\ UNCHANGED << rin, rout, kbVars >>

\* Step 2: one iteration of the research loop
Research ==
    /\ pc = "research"
    /\ Len(log) < MaxLog
    /\ LET sq == NextQuery(attempt, search_query, research_result) IN
       \E response \in JudgeResponses :
         LET r == research(result.ticket, sq, response) IN
         /\ log' = Append(log, [fn |-> "research", search_query |-> sq,
                                query |-> QueryOf(result.ticket, sq), ret |-> r])
         /\ IF IsRaise(r) THEN Propagate(r)
            ELSE /\ search_query' = sq
                 /\ research_result' = r
                 /\ IF LoopContinues(attempt, Get(r, "has_enough_info", FALSE))
                    THEN /\ attempt' = attempt + 1
                         /\ pc' = "research"
                         /\ UNCHANGED result
                    ELSE /\ attempt' = attempt
                         /\ result' = Finalize(result, r, attempt)
                         /\ pc' = "draft"
                 /\ UNCHANGED << tickets, idx, results, triage_result, exc >>
    /\ UNCHANGED << rin, rout, kbVars >>

\* Step 3: drafter, then return
Draft ==
    /\ pc = "draft"
    /\ \E response \in DraftResponses :
         LET d == drafter(result.ticket, triage_result, research_result, response) IN
         /\ log' = Append(log, [fn |-> "drafter", research_result |-> research_result,
                                ret |-> d])
         /\ IF IsRaise(d) THEN Propagate(d)
            ELSE Return([result EXCEPT !.draft = d])
    /\ UNCHANGED << rin, rout, kbVars >>

\* cli.main: the loop over tickets is over
Finish ==
    /\ pc = "main"
    /\ idx > Len(tickets)
    /\ pc' = "exit"
    /\ UNCHANGED << tickets, idx, results, result, triage_result, search_query,
                    research_result, attempt, exc, log, rin, rout, kbVars >>

Init ==
    /\ pc = "main"
    /\ tickets \in Batches
    /\ idx = 1
    /\ results = << >>
    /\ result = None
    /\ triage_result = None
    /\ search_query = None
    /\ research_result = EmptyDict
    /\ attempt = 0
    /\ exc = None
    /\ log = << >>
    /\ rin = None
    /\ rout = None
    /\ KbAtRest

Next == CallPipeline \/ Triage \/ Research \/ Draft \/ Finish

Spec == Init /\ [][Next]_vars

\* the program is sequential and every call it makes returns or raises: a
\* step that can be taken is taken
FairSpec == Spec /\ WF_vars(Next)

(***************************************************************************)
(* research() taken alone, over every judgment-layer answer within bounds  *)
(***************************************************************************)
\* similarity scores a match may carry: below, at and above the threshold
Scores == { 4000, SIMILARITY_THRESHOLD, 7500, 8200 }

\* a match as the judgment layer may write it, before its source_id: well
\* formed, or lacking the stale key, or lacking the similarity_score key
MatchShapes ==
    { [content_snippet |-> "snippet", similarity_score |-> sc, stale |-> st] :
          sc \in Scores, st \in BOOLEAN }
        \cup { [content_snippet |-> "snippet", similarity_score |-> 8200],
               [content_snippet |-> "snippet", stale |-> FALSE] }

\* the match at position i gets source_id i, except that a stale match may
\* come without any source_id
MatchChoices ==
    { [has_id |-> TRUE, fields |-> sh] : sh \in MatchShapes }
        \cup { [has_id |-> FALSE,
                fields |-> [content_snippet |-> "snippet", similarity_score |-> 8200,
                            stale |-> TRUE]] }

MatchesOf(f) ==
    [i \in DOMAIN f |-> IF f[i].has_id THEN SetItem(f[i].fields, "source_id", i)
                        ELSE f[i].fields]

MatchLists ==
    UNION { { MatchesOf(f) : f \in [1..n -> MatchChoices] } : n \in 0..MaxMatches }

TermLists == { << >>, << << "a" >>, << "b" >> >> }

ResearchPayloads ==
    { EmptyDict }
        \cup { [matches |-> ms] : ms \in MatchLists }
        \cup { [suggested_search_terms |-> ts] : ts \in TermLists }
        \cup { [matches |-> ms, suggested_search_terms |-> ts] :
                   ms \in MatchLists, ts \in TermLists }

ResearchResponses ==
    { Raise("APIError"), Response(NoContent), Response(NoJsonText),
      Response(BadJsonText) }
        \cup { Response(JsonText(p)) : p \in ResearchPayloads }

ResearchInputs ==
    [ticket : { Ticket(1) }, search_query : { None, Str(<< "a" >>) },
     response : ResearchResponses]

InitResearch ==
    /\ pc = "unit"
    /\ tickets = << >>
    /\ idx = 1
    /\ results = << >>
    /\ result = None
    /\ triage_result = None
    /\ search_query = None
    /\ research_result = EmptyDict
    /\ attempt = 0
    /\ exc = None
    /\ log = << >>
    /\ rin \in ResearchInputs
    /\ rout = None
    /\ KbAtRest

\* one call of research(ticket, store, client, search_query)
Assess ==
    /\ pc = "unit"
    /\ rout = None
    /\ rout' = research(rin.ticket, rin.search_query, rin.response)
    /\ UNCHANGED << pipeVars, rin, kbVars >>

NextResearch == Assess

SpecResearch == InitResearch /\ [][NextResearch]_vars

(***************************************************************************)
(* research() with the hits of the index in view: the hits reach the       *)
(* outcome only through the prompt and the judgment layer's answer to it   *)
(***************************************************************************)
\* research(..., top_k=3)
TOP_K == 3

\* f"{score:.3f}": the score rounded to 3 decimals, as a number of thousandths
Format3f(score) == (score + 5) \div 10

\* the float a 3-decimal text denotes, in units of 1/10000
ParseScore(thousandths) == thousandths * 10

\* scores the index may compute: well below the threshold, just below it (by
\* less than half a thousandth), at it, and above it
IndexScores == { 4000, 4996, SIMILARITY_THRESHOLD, 8200 }

SourceIdAt(i) == CASE i = 1 -> "kb-1" [] i = 2 -> "kb-2" [] i = 3 -> "kb-3" [] i = 4 -> "kb-4"

\* the lists store.query can return: at most top_k hits of distinct source
\* ids, in non-increasing score order
HitLists ==
    UNION { { [i \in 1..n |-> [text |-> "document",
                              metadata |-> [source_id |-> SourceIdAt(i),
                                            type |-> "past_ticket",
                                            stale |-> f[i].stale],
                              score |-> f[i].score]] :
                f \in { g \in [1..n -> [score : IndexScores, stale : BOOLEAN]] :
                          \A i, j \in 1..n : i < j => g[i].score >= g[j].score } }
            : n \in 0..TOP_K }

\* one "[Match i | source_id=... | score=... | ... | stale=...]\ntext" block
MatchHeader(i, m) ==
    [source_id |-> Get(m.metadata, "source_id", [item |-> i - 1]),
     score |-> Format3f(m.score),
     type |-> Get(m.metadata, "type", "?"),
     stale |-> Get(m.metadata, "stale", FALSE),
     text |-> m.text]

\* user_message
UserMessage(ticket, raw_matches) ==
    [subject |-> Get(ticket, "subject", << >>),
     body |-> Get(ticket, "body", << >>),
     matches_text |-> [i \in DOMAIN raw_matches |-> MatchHeader(i, raw_matches[i])]]

\* the answer SYSTEM_PROMPT asks for: one match per header, source_id, score
\* and stale copied from the header
FaithfulPayload(user_message) ==
    [matches |-> [i \in DOMAIN user_message.matches_text |->
                    LET h == user_message.matches_text[i] IN
                    [source_id |-> h.source_id,
                     content_snippet |-> h.text,
                     similarity_score |-> ParseScore(h.score),
                     source_type |-> h.type,
                     stale |-> h.stale]],
     suggested_search_terms |-> << << "a" >>, << "b" >> >>]

InventedMatch ==
    [source_id |-> "kb-0", content_snippet |-> "snippet", similarity_score |-> 9000,
     source_type |-> "faq", stale |-> FALSE]

\* answers the judgment layer can give to a prompt: the faithful one, and
\* unfaithful ones (a match of its own added, every stale flag cleared);
\* nothing in research() ties the answer to the prompt
JudgeAnswers(user_message) ==
    LET p == FaithfulPayload(user_message) IN
    { Response(JsonText(p)),
      Response(JsonText([p EXCEPT !.matches = Append(@, InventedMatch)])),
      Response(JsonText([p EXCEPT !.matches =
                             [i \in DOMAIN @ |-> [@[i] EXCEPT !.stale = FALSE]]])),
      Raise("APIError") }

EvidenceInputs ==
    UNION { [ticket : { Ticket(1) }, search_query : { None }, raw_matches : { raw },
             response : JudgeAnswers(UserMessage(Ticket(1), raw))] : raw \in HitLists }

InitEvidence ==
    /\ pc = "unit"
    /\ tickets = << >>
    /\ idx = 1
    /\ results = << >>
    /\ result = None
    /\ triage_result = None
    /\ search_query = None
    /\ research_result = EmptyDict
    /\ attempt = 0
    /\ exc = None
    /\ log = << >>
    /\ rin \in EvidenceInputs
    /\ rout = None
    /\ KbAtRest

SpecEvidence == InitEvidence /\ [][NextResearch]_vars
(***************************************************************************)
(* Similarity Index: VectorStore and build() of build_kb.py                *)
(*                                                                         *)
(* The Chroma collection is the set of its records [id, embedding,         *)
(* document, metadata]; its count is the number of records.  Documents and *)
(* query texts are only compared and embedded, so they are TLA+ strings.   *)
(* An embedding is a unit vector given by its direction in degrees; the    *)
(* collection's distance is the cosine distance ("hnsw:space": "cosine"),  *)
(* in units of 1/10000.  A call that returns a list returns Returns(list). *)
(***************************************************************************)
\* longest list of items one add_batch call is given
MaxBatch == 2

\* largest top_k a query is given
MaxTopK == 3

Returns(v) == [value |-> v]

\* variant of PyStr: the JSON spelling of a bool
PyStr_lowercase(b) == IF b THEN "true" ELSE "false"
\* str(v) of a bool
PyStr(b) == IF b THEN "True" ELSE "False"

Min(a, b) == IF a < b THEN a ELSE b

\* 1 - cos of the angle between two directions
CosineDistance(a, b) ==
    LET d == IF a > b THEN a - b ELSE b - a
    IN  CASE d = 0 -> 0
          [] d = 60 -> 5000
          [] d = 120 -> 15000

\* metadata written by the loaders: a FAQ has no stale key, a past ticket
\* carries stale as a bool
FaqMeta(source_id) == [source_id |-> source_id, type |-> "faq"]

TicketMeta(source_id, is_stale) ==
    [source_id |-> source_id, type |-> "past_ticket", stale |-> is_stale]

\* (text, metadata) items
FaqResetV1 == << "Reset your password from the login page", FaqMeta("faq-reset") >>

FaqResetV2 == << "Reset your password from account settings", FaqMeta("faq-reset") >>

FaqEmpty == << "", FaqMeta("faq-empty") >>

TicketRefund ==
    << "Customer question: refund? Resolution: refunded", TicketMeta("ticket-1", FALSE) >>

TicketLegacy ==
    << "Customer question: legacy plan? Resolution: STALE", TicketMeta("ticket-2", TRUE) >>

ItemPool == { FaqResetV1, FaqResetV2, FaqEmpty, TicketRefund, TicketLegacy }

ItemBatches == UNION { [1..n -> ItemPool] : n \in 1..MaxBatch }

QueryTexts == { "how do I reset my password", "where is my refund", "" }

\* the embedding model, as the direction it gives each text
Embedding(text) ==
    CASE text = FaqResetV1[1] -> 0
      [] text = FaqResetV2[1] -> 60
      [] text = TicketRefund[1] -> 120
      [] text = TicketLegacy[1] -> 60
      [] text = "how do I reset my password" -> 0
      [] text = "where is my refund" -> 120

\* self._oai.embeddings.create(input=texts, model=EMBED_MODEL): one request
\* for the whole list; the service rejects a request holding an empty string,
\* and fails as a whole when it is not reachable (up = FALSE)
embeddings_create(texts, up) ==
    IF ~up THEN Raise("APIError")
    ELSE IF \E i \in 1..Len(texts) : texts[i] = "" THEN Raise("BadRequestError")
    ELSE [data |-> [i \in 1..Len(texts) |-> [embedding |-> Embedding(texts[i])]]]

\* the metadata keys that hold a bool
BoolKeys == { "stale" }

\* {k: (str(v) if isinstance(v, bool) else v) for k, v in m.items()}
safe_meta(m) == [k \in DOMAIN m |-> IF k \in BoolKeys THEN PyStr(m[k]) ELSE m[k]]

\* variant of upsert: the records are added next to the ones already there
upsert_as_add(c, ids, embeddings, documents, metadatas) ==
    IF \E i, j \in 1..Len(ids) : i # j /\ ids[i] = ids[j]
    THEN [col |-> c, ret |-> Raise("DuplicateIDError")]
    ELSE [col |-> c \cup { [id |-> ids[i], embedding |-> embeddings[i],
                            document |-> documents[i], metadata |-> metadatas[i]]
                           : i \in 1..Len(ids) },
          ret |-> None]

\* self._col.upsert(ids, embeddings, documents, metadatas): one library call,
\* which validates its arguments (ids unique within the call) before it
\* writes, and then replaces the records of these ids
upsert(c, ids, embeddings, documents, metadatas) ==
    IF \E i, j \in 1..Len(ids) : i # j /\ ids[i] = ids[j]
    THEN [col |-> c, ret |-> Raise("DuplicateIDError")]
    ELSE [col |-> { r \in c : \A i \in 1..Len(ids) : r.id # ids[i] }
                  \cup { [id |-> ids[i], embedding |-> embeddings[i],
                          document |-> documents[i], metadata |-> metadatas[i]]
                         : i \in 1..Len(ids) },
          ret |-> None]

\* variant of add_batch: the texts are embedded one request each, and the
\* items embedded before the first failure are written
add_batch_keeps_embedded_prefix(c, items, up) ==
    LET texts == [i \in 1..Len(items) |-> items[i][1]]
        metadatas == [i \in 1..Len(items) |-> items[i][2]]
        resp(i) == embeddings_create(<< texts[i] >>, up)
        k == CHOOSE n \in 0..Len(items) :
                 /\ \A i \in 1..n : ~IsRaise(resp(i))
                 /\ n < Len(items) => IsRaise(resp(n + 1))
        written == upsert(c, [i \in 1..k |-> metadatas[i].source_id],
                          [i \in 1..k |-> resp(i).data[1].embedding],
                          [i \in 1..k |-> texts[i]],
                          [i \in 1..k |-> safe_meta(metadatas[i])])
    IN  IF k < Len(items) /\ ~IsRaise(written.ret)
        THEN [col |-> written.col, ret |-> resp(k + 1)]
        ELSE written

\* VectorStore.add_batch(items), as the collection it leaves and what the call
\* returns or raises
add_batch(c, items, up) ==
    LET texts == [i \in 1..Len(items) |-> items[i][1]]
        metadatas == [i \in 1..Len(items) |-> items[i][2]]
        resp == embeddings_create(texts, up)
    IN  IF IsRaise(resp) THEN [col |-> c, ret |-> resp]
        ELSE LET embeddings == [i \in 1..Len(items) |-> resp.data[i].embedding]
                 ids == [i \in 1..Len(items) |-> metadatas[i].source_id]
                 safe_metas == [i \in 1..Len(items) |-> safe_meta(metadatas[i])]
             IN  upsert(c, ids, embeddings, texts, safe_metas)

\* VectorStore.wipe(): delete_collection, then get_or_create_collection
wipe(c) == {}

\* VectorStore.__len__
count(c) == Cardinality(c)

\* self._col.query(query_embeddings=[q_emb], n_results=n, include=...): the n
\* records nearest to q_emb, nearest first, in any order among equals
col_query(c, q_emb, n) ==
    IF n < 1 THEN { Raise("ValueError") }
    ELSE LET dist(r) == CosineDistance(q_emb, r.embedding)
             ranked == { s \in [1..n -> c] :
                           /\ \A i, j \in 1..n : i < j => s[i] # s[j]
                           /\ \A i, j \in 1..n : i < j => dist(s[i]) <= dist(s[j])
                           /\ \A r \in c : (\A i \in 1..n : s[i] # r)
                                               => dist(r) >= dist(s[n]) }
         IN  { [documents |-> << [i \in 1..n |-> s[i].document] >>,
                metadatas |-> << [i \in 1..n |-> s[i].metadata] >>,
                distances |-> << [i \in 1..n |-> dist(s[i])] >>] : s \in ranked }

\* variant of Hit: the distance is passed on as the score
Hit_score_is_distance(doc, meta, dist) ==
    [text |-> doc,
     metadata |-> SetItem(meta, "stale", "stale" \in DOMAIN meta /\ meta.stale = "True"),
     score |-> dist]

\* the body of the for loop of query(): one hit dict
Hit(doc, meta, dist) ==
    [text |-> doc,
     metadata |-> SetItem(meta, "stale", "stale" \in DOMAIN meta /\ meta.stale = "True"),
     score |-> 10000 - dist]

\* VectorStore.query(query_text, top_k): the outcomes the call can have, each
\* with the number of embedding requests it made
query(c, query_text, top_k, up) ==
    IF count(c) = 0 THEN { [ret |-> Returns(<< >>), embed_calls |-> 0] }
    ELSE LET resp == embeddings_create(<< query_text >>, up)
         IN  IF IsRaise(resp) THEN { [ret |-> resp, embed_calls |-> 1] }
             ELSE LET q_emb == resp.data[1].embedding
                      n == Min(top_k, count(c))
                  IN  { [ret |-> IF IsRaise(found) THEN found
                                 ELSE Returns([i \in 1..Len(found.documents[1]) |->
                                                 Hit(found.documents[1][i],
                                                     found.metadatas[1][i],
                                                     found.distances[1][i])]),
                         embed_calls |-> 1]
                        : found \in col_query(c, q_emb, n) }

\* what load_faqs() and load_past_tickets() read from the data directory
FaqItems == << FaqResetV2 >>

TicketItems == << TicketRefund, TicketLegacy >>

\* the store taken alone, on a fresh Chroma directory
InitKB ==
    /\ pc = "store"
    /\ tickets = << >>
    /\ idx = 1
    /\ results = << >>
    /\ result = None
    /\ triage_result = None
    /\ search_query = None
    /\ research_result = EmptyDict
    /\ attempt = 0
    /\ exc = None
    /\ log = << >>
    /\ rin = None
    /\ rout = None
    /\ col = {}
    /\ kpc = "idle"
    /\ kop = None
    /\ kout = None
    /\ kold = {}
    /\ upserted = {}

\* store.add_batch(items)
AddBatch ==
    /\ pc = "store"
    /\ kpc = "idle"
    /\ \E items \in ItemBatches, up \in BOOLEAN :
         LET done == add_batch(col, items, up) IN
         /\ col' = done.col
         /\ kop' = [op |-> "add_batch", items |-> items, up |-> up, before |-> col]
         /\ kout' = done.ret
         /\ upserted' = IF IsRaise(done.ret) THEN upserted
                        ELSE upserted \cup { items[i][2].source_id : i \in 1..Len(items) }
    /\ UNCHANGED << pipeVars, rin, rout, kpc, kold >>

\* store.wipe()
Wipe ==
    /\ pc = "store"
    /\ kpc = "idle"
    /\ col' = wipe(col)
    /\ kop' = [op |-> "wipe"]
    /\ kout' = None
    /\ upserted' = {}
    /\ UNCHANGED << pipeVars, rin, rout, kpc, kold >>

\* store.query(query_text, top_k), by a reader of the same Chroma directory:
\* it can come between any two steps of a running build()
Query ==
    /\ pc = "store"
    /\ \E query_text \in QueryTexts, top_k \in 1..MaxTopK, up \in BOOLEAN :
         \E outcome \in query(col, query_text, top_k, up) :
           /\ kop' = [op |-> "query", query_text |-> query_text, top_k |-> top_k,
                      up |-> up, embed_calls |-> outcome.embed_calls, during |-> kpc]
           /\ kout' = outcome.ret
    /\ UNCHANGED << pipeVars, rin, rout, col, kpc, kold, upserted >>

\* build(force) up to the FAQ batch: returns the store as it is when it holds
\* records and force is not set, else wipes it (force, and records to wipe)
BuildBegin ==
    /\ pc = "store"
    /\ kpc = "idle"
    /\ \E force \in BOOLEAN :
         IF count(col) > 0 /\ ~force
         THEN /\ kop' = [op |-> "build", force |-> force, before |-> col]
              /\ kout' = Returns(col)
              /\ UNCHANGED << col, kpc, kold, upserted >>
         ELSE /\ kold' = col
              /\ col' = IF force /\ count(col) > 0 THEN wipe(col) ELSE col
              /\ upserted' = IF force /\ count(col) > 0 THEN {} ELSE upserted
              /\ kop' = [op |-> "build", force |-> force, before |-> col]
              /\ kout' = None
              /\ kpc' = "faqs"
    /\ UNCHANGED << pipeVars, rin, rout >>

\* one "if items: store.add_batch(items)" of build(); an exception leaves build()
BuildAdd(items, then) ==
    IF items = << >>
    THEN /\ kpc' = then
         /\ kold' = IF then = "idle" THEN {} ELSE kold
         /\ UNCHANGED << col, kop, kout, upserted >>
    ELSE \E up \in BOOLEAN :
           LET done == add_batch(col, items, up) IN
           /\ col' = done.col
           /\ kop' = [op |-> "add_batch", items |-> items, up |-> up, before |-> col,
                      by |-> "build", then |-> then]
           /\ kout' = done.ret
           /\ upserted' = IF IsRaise(done.ret) THEN upserted
                          ELSE upserted \cup { items[i][2].source_id : i \in 1..Len(items) }
           /\ kpc' = IF IsRaise(done.ret) THEN "idle" ELSE then
           /\ kold' = IF kpc' = "idle" THEN {} ELSE kold

BuildFaqs ==
    /\ pc = "store"
    /\ kpc = "faqs"
    /\ BuildAdd(FaqItems, "tickets")
    /\ UNCHANGED << pipeVars, rin, rout >>

BuildTickets ==
    /\ pc = "store"
    /\ kpc = "tickets"
    /\ BuildAdd(TicketItems, "idle")
    /\ UNCHANGED << pipeVars, rin, rout >>

NextKB == AddBatch \/ Wipe \/ Query \/ BuildBegin \/ BuildFaqs \/ BuildTickets

SpecKB == InitKB /\ [][NextKB]_vars
(***************************************************************************)
(* The pipeline over the store: each research() call queries the           *)
(* collection first.  Init leaves the collection empty.                    *)
(***************************************************************************)
\* Step 2 with the store, one iteration of the research loop: store.query,
\* then the judgment layer, then the loop's decision
ResearchOnStore ==
    /\ pc = "research"
    /\ Len(log) < MaxLog
    /\ LET sq == NextQuery(attempt, search_query, research_result) IN
       \E up \in BOOLEAN :
         \E found \in query(col, QueryOf(result.ticket, sq), TOP_K, up) :
           IF IsRaise(found.ret)
           THEN /\ log' = Append(log, [fn |-> "research", search_query |-> sq,
                                       query |-> QueryOf(result.ticket, sq),
                                       ret |-> found.ret])
                /\ Propagate(found.ret)
           ELSE \E response \in JudgeResponses :
                  LET r == research(result.ticket, sq, response) IN
                  /\ log' = Append(log, [fn |-> "research", search_query |-> sq,
                                         query |-> QueryOf(result.ticket, sq),
                                         hits |-> found.ret.value,
                                         embed_calls |-> found.embed_calls,
                                         ret |-> r])
                  /\ IF IsRaise(r) THEN Propagate(r)
                     ELSE /\ search_query' = sq
                          /\ research_result' = r
                          /\ IF LoopContinues(attempt, Get(r, "has_enough_info", FALSE))
                             THEN /\ attempt' = attempt + 1
                                  /\ pc' = "research"
                                  /\ UNCHANGED result
                             ELSE /\ attempt' = attempt
                                  /\ result' = Finalize(result, r, attempt)
                                  /\ pc' = "draft"
                          /\ UNCHANGED << tickets, idx, results, triage_result, exc >>
    /\ UNCHANGED << rin, rout, kbVars >>

NextEmptyIndex == CallPipeline \/ Triage \/ ResearchOnStore \/ Draft \/ Finish

SpecEmptyIndex == Init /\ [][NextEmptyIndex]_vars
(***************************************************************************)
(* Properties                                                              *)
(***************************************************************************)
\* the research() calls and the drafter() calls of the current invocation
ResearchCalls == SelectSeq(log, LAMBDA e : e.fn = "research")

DrafterCalls == SelectSeq(log, LAMBDA e : e.fn = "drafter")

\* the invocation the log belongs to has returned to cli.main
Returned == pc \in { "main", "exit" } /\ log # << >>

LastResult == results[Len(results)]

\* the ticket the log belongs to
LogTicket == IF pc \in { "main", "exit" } THEN tickets[idx - 1] ELSE tickets[idx]

Sufficient(outcome) == ~IsRaise(outcome) /\ outcome.has_enough_info

Insufficient(outcome) == ~IsRaise(outcome) /\ ~outcome.has_enough_info

\* every attempt 0..MAX_RETRIES ran and none was sufficient
Exhausted ==
    /\ Len(ResearchCalls) = MAX_RETRIES + 1
    /\ \A i \in 1..Len(ResearchCalls) : Insufficient(ResearchCalls[i].ret)

\* C1: in one run of run_pipeline, research() is invoked at most
\* MAX_RETRIES + 1 times, whatever outcomes the Evidence Assessor returns.
C1_ResearchCallsBounded == Len(ResearchCalls) <= MAX_RETRIES + 1

C1_Witness ==
    /\ Len(ResearchCalls) = MAX_RETRIES + 1
    /\ Insufficient(ResearchCalls[MAX_RETRIES + 1].ret)

\* C2: once a ticket has passed triage, the retry loop eventually leaves the
\* attempting states (Sufficient or Exhausted, i.e. the drafting step, unless
\* a collaborator raised), and unless a collaborator raised run_pipeline
\* eventually returns a result for that ticket whose research field is a
\* non-null Research Outcome.
C2_PipelineTerminates ==
    /\ (pc = "research") ~> (pc = "draft" \/ pc = "crashed")
    /\ \A i \in 1..NumTickets :
         (pc = "research" /\ idx = i)
             ~> (\/ pc = "crashed"
                 \/ /\ Len(results) >= i
                    /\ ~results[i].skipped
                    /\ results[i].research # None
                    /\ ~IsRaise(results[i].research))

C2_Witness ==
    /\ Returned
    /\ Exhausted
    /\ LastResult.research # None
    /\ LastResult.retries = MAX_RETRIES

\* C3: when triage classifies the ticket as spam, run_pipeline returns with
\* skipped = true, research None, draft None and retries = 0, and neither
\* research() nor drafter() is invoked for that ticket.
C3_SpamShortCircuit ==
    /\ \A i \in 1..Len(results) :
         results[i].triage.category = "spam"
             => /\ results[i].skipped = TRUE
                /\ results[i].research = None
                /\ results[i].draft = None
                /\ results[i].retries = 0
    /\ (log # << >> /\ ~IsRaise(log[1].ret) /\ log[1].ret.category = "spam")
           => /\ Len(log) = 1
              /\ Returned
              /\ LastResult.skipped = TRUE

C3_Witness ==
    /\ Returned
    /\ log[1].ret.category = "spam"
    /\ LastResult.skipped = TRUE
    /\ Len(results) = 2

\* C4: for every Research Outcome research() returns, has_enough_info is true
\* exactly when at least MIN_STRONG_MATCHES of its matches are not stale and
\* score at least SIMILARITY_THRESHOLD; a stale match never counts. (A match
\* that carries no stale field is not stale, one that carries no score has
\* score 0.)
StrongCount(matches) ==
    Cardinality({ i \in 1..Len(matches) :
                    /\ Get(matches[i], "stale", FALSE) = FALSE
                    /\ Get(matches[i], "similarity_score", 0) >= SIMILARITY_THRESHOLD })

C5_StopOnSufficient ==
    LET rc == ResearchCalls
        n == Len(rc)
    IN  /\ \A i \in 1..n : Sufficient(rc[i].ret) => i = n
        /\ (n > 0 /\ Sufficient(rc[n].ret))
               => /\ pc # "research"
                  /\ pc = "draft" => (result.research = rc[n].ret
                                       /\ research_result = rc[n].ret)
                  /\ pc # "draft" => Len(DrafterCalls) = 1
                  /\ \A j \in 1..Len(DrafterCalls) :
                       DrafterCalls[j].research_result = rc[n].ret
                  /\ Returned => LastResult.research = rc[n].ret

C5_Witness ==
    /\ Returned
    /\ Len(ResearchCalls) = 2
    /\ Insufficient(ResearchCalls[1].ret)
    /\ Sufficient(ResearchCalls[2].ret)
    /\ Len(DrafterCalls) = 1

\* C6: when every attempt 0..MAX_RETRIES is insufficient, the outcome of the
\* last attempt becomes result["research"], and the pipeline goes on to call
\* the drafter with it.
C6_ExhaustedUsesLastOutcome ==
    Exhausted
        => LET last == ResearchCalls[MAX_RETRIES + 1].ret IN
           /\ pc # "research"
           /\ pc = "draft" => (result.research = last /\ research_result = last)
           /\ pc # "draft" => (/\ Len(DrafterCalls) = 1
                               /\ DrafterCalls[1].research_result = last)
           /\ Returned => LastResult.research = last

C6_Witness ==
    /\ Exhausted
    /\ Returned
    /\ ResearchCalls[1].ret # ResearchCalls[MAX_RETRIES + 1].ret
    /\ ResearchCalls[MAX_RETRIES].ret # ResearchCalls[MAX_RETRIES + 1].ret
    /\ LastResult.draft # None

\* C7: for every non-skipped result, retries is the number of research()
\* invocations executed minus one.
C7_RetriesCount ==
    /\ pc = "draft" => result.retries = Len(ResearchCalls) - 1
    /\ (Returned /\ ~LastResult.skipped)
           => LastResult.retries = Len(ResearchCalls) - 1

C7_Witness ==
    /\ Returned
    /\ ~LastResult.skipped
    /\ LastResult.retries = 1
    /\ Sufficient(ResearchCalls[2].ret)

\* C8: attempt 0 calls research() with search_query None, so the query is the
\* ticket text; each retry queries with the space-joined
\* suggested_search_terms of the immediately preceding outcome, or with the
\* ticket text again when that outcome suggested no terms or the joined
\* string is empty.
C8_RetryQuery ==
    LET rc == ResearchCalls IN
    \A n \in 1..Len(rc) :
        IF n = 1
        THEN /\ rc[1].search_query = None
             /\ rc[1].query = BaseQuery(LogTicket)
        ELSE LET terms == rc[n - 1].ret.suggested_search_terms
                 joined == Join(terms)
             IN  rc[n].query = IF terms = << >> \/ joined = << >>
                               THEN BaseQuery(LogTicket)
                               ELSE joined

C8_Witness ==
    /\ Len(ResearchCalls) = 3
    /\ ResearchCalls[1].ret.suggested_search_terms = << << "a" >>, << "b" >> >>
    /\ ResearchCalls[2].query = << "a", " ", "b" >>
    /\ ResearchCalls[2].ret.suggested_search_terms = << >>
    /\ ResearchCalls[3].query = BaseQuery(LogTicket)
    /\ BaseQuery(LogTicket) # << "a", " ", "b" >>

\* C9: if research() raises on any attempt, no later research() call and no
\* drafter() call is made, the exception leaves run_pipeline unmodified, and
\* no Pipeline Result is returned for that ticket.
C9_ResearchFailureAborts ==
    \A i \in 1..Len(log) :
        (log[i].fn = "research" /\ IsRaise(log[i].ret))
            => /\ i = Len(log)
               /\ Len(DrafterCalls) = 0
               /\ pc = "crashed"
               /\ exc = log[i].ret
               /\ Len(results) = idx - 1

C9_Witness ==
    /\ pc = "crashed"
    /\ Len(ResearchCalls) = 2
    /\ Insufficient(ResearchCalls[1].ret)
    /\ IsRaise(ResearchCalls[2].ret)

\* the judgment layer answered, and its content holds no parseable payload
Unparseable(response) ==
    /\ ~IsRaise(response)
    /\ (response.content = None \/ response.content.text # "json")

\* the judgment layer answered with a parseable payload that lacks key k
PayloadLacks(response, k) ==
    /\ ~IsRaise(response)
    /\ response.content # None
    /\ response.content.text = "json"
    /\ k \notin DOMAIN response.content.payload

\* C10 as claimed: a response with no parseable payload, or a parseable
\* payload that lacks 'matches' or 'suggested_search_terms', makes research()
\* raise.
C10_MalformedAlwaysRaises ==
    (rout # None
     /\ (\/ Unparseable(rin.response)
         \/ PayloadLacks(rin.response, "matches")
         \/ PayloadLacks(rin.response, "suggested_search_terms")))
        => IsRaise(rout)

\* C10, amended: a response with no parseable payload makes research() raise;
\* a parseable payload that lacks 'matches' does not: the field is filled
\* with [] and research() returns an outcome with matches = [] and
\* has_enough_info = false; a payload that lacks 'suggested_search_terms' has
\* it filled with [] in the outcome research() returns.
C10_UnparseableRaisesMissingFieldsDefault ==
    rout # None
        => /\ Unparseable(rin.response) => IsRaise(rout)
           /\ PayloadLacks(rin.response, "matches")
                  => /\ ~IsRaise(rout)
                     /\ rout.matches = << >>
                     /\ rout.has_enough_info = FALSE
           /\ (PayloadLacks(rin.response, "suggested_search_terms") /\ ~IsRaise(rout))
                  => rout.suggested_search_terms = << >>

C10_Witness ==
    /\ rout # None
    /\ rin.response = Response(JsonText(EmptyDict))
    /\ ~IsRaise(rout)
    /\ rout.has_enough_info = FALSE

\* C12: within one ticket triage() has returned before the first research()
\* call, the research loop has resolved (a sufficient outcome, or
\* MAX_RETRIES + 1 attempts) before drafter() is called, and no research()
\* call follows the drafter() call.
C12_StagesInOrder ==
    /\ pc = "triage" => log = << >>
    /\ log # << >> => log[1].fn = "triage"
    /\ \A i \in 2..Len(log) :
         /\ log[i].fn # "triage"
         /\ ~IsRaise(log[1].ret)
         /\ ~IsRaise(log[i - 1].ret)
    /\ \A i \in 1..Len(log) :
         log[i].fn = "drafter"
             => /\ i = Len(log)
                /\ i > 2
                /\ log[i - 1].fn = "research"
                /\ (Sufficient(log[i - 1].ret) \/ Exhausted)
    /\ pc = "research" => Len(DrafterCalls) = 0

C12_Witness ==
    /\ Returned
    /\ Len(log) = MAX_RETRIES + 3
    /\ log[Len(log)].fn = "drafter"
    /\ Exhausted

\* C14: when run_pipeline raises for one ticket of the batch, the remaining
\* tickets are still processed: the run never ends on an exception while
\* tickets of the batch are left.
C14_BatchSurvivesFailure == pc = "crashed" => idx = Len(tickets)

\* C19: a category other than "spam" continues the pipeline: every returned
\* result of such a ticket has skipped = false, a research outcome and a
\* draft, after exactly one drafter() call; a result without a draft is a
\* spam verdict's.
C19_NonSpamContinues ==
    /\ \A i \in 1..Len(results) :
         /\ results[i].triage.category # "spam"
                => /\ results[i].skipped = FALSE
                   /\ results[i].research # None
                   /\ results[i].draft # None
         /\ (results[i].skipped \/ results[i].draft = None)
                => results[i].triage.category = "spam"
    /\ (Returned /\ LastResult.triage.category # "spam") => Len(DrafterCalls) = 1
    /\ (Returned /\ Len(DrafterCalls) = 0) => LastResult.triage.category = "spam"

C19_Witness ==
    /\ Returned
    /\ LastResult.triage.category = "general"
    /\ LastResult.skipped = FALSE
    /\ LastResult.draft # None
    /\ Len(DrafterCalls) = 1

\* the source_id values of the stale matches, in match order
StaleSourceIds(matches) ==
    LET stale == SelectSeq(matches, LAMBDA m : Get(m, "stale", FALSE) = TRUE)
    IN  [i \in 1..Len(stale) |-> stale[i].source_id]

\* C20: in every Research Outcome, stale_ids is exactly the source_id values
\* of the matches of that outcome whose stale flag is true, in match order.
C20_StaleIds ==
    (rout # None /\ ~IsRaise(rout)) => rout.stale_ids = StaleSourceIds(rout.matches)

C20_Witness ==
    /\ rout # None
    /\ ~IsRaise(rout)
    /\ Len(rout.matches) = 3
    /\ Get(rout.matches[1], "stale", FALSE) = TRUE
    /\ Get(rout.matches[2], "stale", FALSE) = FALSE
    /\ Get(rout.matches[3], "stale", FALSE) = TRUE
    /\ rout.stale_ids = << 1, 3 >>

\* the record add_batch stores for one (text, metadata) item
StoredRecord(item) ==
    [id |-> item[2].source_id, embedding |-> Embedding(item[1]),
     document |-> item[1], metadata |-> safe_meta(item[2])]

AddBatchCalled == kop # None /\ kop.op = "add_batch"

QueryCalled == kop # None /\ kop.op = "query"

\* C16: an add_batch call is all-or-nothing: when it raises (the embedding
\* request or the write fails) the collection is exactly as before the call;
\* when it returns, every record of the call is stored.
C16_BatchAllOrNothing ==
    AddBatchCalled =>
        IF IsRaise(kout)
        THEN col = kop.before
        ELSE /\ kout = None
             /\ \A i \in 1..Len(kop.items) : StoredRecord(kop.items[i]) \in col

C16_Witness ==
    /\ AddBatchCalled
    /\ kop.up
    /\ Len(kop.items) = 2
    /\ kop.items[1] = TicketRefund
    /\ kop.items[2] = FaqEmpty
    /\ IsRaise(kout)
    /\ kop.before = {}
    /\ col = {}

\* C17: the collection holds one record per source id upserted since the last
\* wipe; an upsert of ids that are all present already replaces their records
\* and leaves the size as it was.
C17_UpsertReplacesInPlace ==
    /\ count(col) = Cardinality(upserted)
    /\ (AddBatchCalled /\ ~IsRaise(kout)) =>
          LET ids == { kop.items[i][2].source_id : i \in 1..Len(kop.items) } IN
          /\ \A i \in 1..Len(kop.items) :
               { r \in col : r.id = kop.items[i][2].source_id }
                   = { StoredRecord(kop.items[i]) }
          /\ { r \in col : r.id \notin ids } = { r \in kop.before : r.id \notin ids }
          /\ ids \subseteq { r.id : r \in kop.before } => count(col) = count(kop.before)

C17_Witness ==
    /\ AddBatchCalled
    /\ ~IsRaise(kout)
    /\ kop.items = << FaqResetV2 >>
    /\ StoredRecord(FaqResetV1) \in kop.before
    /\ StoredRecord(FaqResetV2) \in col
    /\ StoredRecord(FaqResetV1) \notin col
    /\ count(col) = 2
    /\ count(kop.before) = 2

\* C18: a query returns at most min(top_k, size) hits in non-increasing score
\* order; on an empty collection it returns [] without an embedding request
\* and without raising.
C18_QueryBoundedAndOrdered ==
    QueryCalled =>
        IF count(col) = 0
        THEN kout = Returns(<< >>) /\ kop.embed_calls = 0
        ELSE IsRaise(kout)
             \/ /\ Len(kout.value) <= Min(kop.top_k, count(col))
                /\ \A i, j \in 1..Len(kout.value) :
                     i < j => kout.value[i].score >= kout.value[j].score

C18_Witness ==
    /\ QueryCalled
    /\ kop.top_k = 2
    /\ count(col) = 3
    /\ ~IsRaise(kout)
    /\ Len(kout.value) = 2
    /\ kout.value[1].score > kout.value[2].score

\* the collection a completed build() leaves
BuiltIndex == add_batch(add_batch({}, FaqItems, TRUE).col, TicketItems, TRUE).col

\* C15: a query that comes while build(force=True) runs returns what it would
\* return on the complete old collection or on the complete new one.
C15_QuerySeesCompleteIndex ==
    (QueryCalled /\ kop.during \in { "faqs", "tickets" }) =>
        \E seen \in { kold, BuiltIndex } :
          \E outcome \in query(seen, kop.query_text, kop.top_k, kop.up) :
            kout = outcome.ret

\* the sufficiency policy applied to the index's own hits
PolicyOnHits(raw_matches) ==
    Cardinality({ i \in DOMAIN raw_matches :
                    /\ ~raw_matches[i].metadata.stale
                    /\ raw_matches[i].score >= SIMILARITY_THRESHOLD }) >= MIN_STRONG_MATCHES

\* C11: every match of a Research Outcome is a hit the index returned for the
\* attempt's query, with the score the index computed for it, and
\* has_enough_info is what the sufficiency policy gives on the index's hits.
C11_MatchesAreIndexHits ==
    (rout # None /\ ~IsRaise(rout)) =>
        /\ \A i \in DOMAIN rout.matches :
             \E j \in DOMAIN rin.raw_matches :
               /\ rout.matches[i].source_id = rin.raw_matches[j].metadata.source_id
               /\ rout.matches[i].similarity_score = rin.raw_matches[j].score
        /\ rout.has_enough_info = PolicyOnHits(rin.raw_matches)

\* C13: on an empty collection, for a non-spam ticket, every query returns
\* zero hits without an error, every Research Outcome has matches = [] and
\* has_enough_info = false, the drafter is called only after
\* MAX_RETRIES + 1 attempts and with no evidence, and retries = MAX_RETRIES.
C13_EmptyIndexExhaustsRetries ==
    count(col) = 0 =>
        /\ \A i \in DOMAIN log :
             log[i].fn = "research" =>
                 /\ "hits" \in DOMAIN log[i]
                 /\ log[i].hits = << >>
                 /\ ~IsRaise(log[i].ret) =>
                        /\ log[i].ret.matches = << >>
                        /\ log[i].ret.has_enough_info = FALSE
        /\ \A i \in DOMAIN log :
             log[i].fn = "drafter" =>
                 /\ Exhausted
                 /\ log[i].research_result.matches = << >>
        /\ (Returned /\ ~LastResult.skipped) => LastResult.retries = MAX_RETRIES

\* C22: every returned result that was not skipped has a sufficient research
\* outcome or retries = MAX_RETRIES: the drafter is never handed an
\* insufficient outcome while retry budget remains.
C22_SufficientOrExhausted ==
    /\ \A i \in 1..Len(results) :
         ~results[i].skipped =>
             \/ results[i].research.has_enough_info
             \/ results[i].retries = MAX_RETRIES
    /\ \A i \in 1..Len(log) :
         (log[i].fn = "drafter" /\ ~log[i].research_result.has_enough_info)
             => Len(ResearchCalls) = MAX_RETRIES + 1

C22_Witness ==
    /\ Len(results) = 2
    /\ ~results[1].skipped
    /\ ~results[1].research.has_enough_info
    /\ results[1].retries = MAX_RETRIES
    /\ ~results[2].skipped
    /\ results[2].research.has_enough_info
    /\ results[2].retries = 1

\* the result run_pipeline returns, read off the calls of this invocation
ResultOfCalls(ticket, calls) ==
    LET rc == SelectSeq(calls, LAMBDA e : e.fn = "research")
        dc == SelectSeq(calls, LAMBDA e : e.fn = "drafter")
    IN  IF calls[1].ret.is_spam
        THEN [ticket |-> ticket, triage |-> calls[1].ret, research |-> None,
              draft |-> None, skipped |-> TRUE, retries |-> 0]
        ELSE [ticket |-> ticket, triage |-> calls[1].ret,
              research |-> rc[Len(rc)].ret, draft |-> dc[1].ret,
              skipped |-> FALSE, retries |-> Len(rc) - 1]

\* C21: whatever the earlier tickets of the batch left behind, an invocation
\* enters its research loop with attempt 0, no search query and no previous
\* outcome, its first query is its own ticket's text, and the result it
\* returns is made of its own ticket and its own collaborator calls, with
\* retries counted from its own attempts.
C21_RetryStateLocal ==
    /\ (pc = "research" /\ Len(ResearchCalls) = 0) =>
           /\ attempt = 0
           /\ search_query = None
           /\ research_result = EmptyDict
    /\ pc = "research" => attempt = Len(ResearchCalls)
    /\ Len(ResearchCalls) > 0 =>
           /\ ResearchCalls[1].search_query = None
           /\ ResearchCalls[1].query = BaseQuery(LogTicket)
    /\ Returned => LastResult = ResultOfCalls(LogTicket, log)

C21_Witness ==
    /\ Returned
    /\ Len(results) = 2
    /\ results[1].retries = MAX_RETRIES
    /\ results[1].research.suggested_search_terms # << >>
    /\ ~results[2].skipped
    /\ results[2].retries = 0
    /\ Len(ResearchCalls) = 1

\* build() has returned normally: by its early return, or after its last batch
BuildReturned ==
    /\ kop # None
    /\ \/ kop.op = "build" /\ kout # None
       \/ /\ kop.op = "add_batch"
          /\ "by" \in DOMAIN kop
          /\ kop.then = "idle"
          /\ ~IsRaise(kout)

\* C23: whenever build() returns normally the collection holds every FAQ
\* record and every past-ticket record of the data set.
C23_BuildReturnsCompleteIndex ==
    BuildReturned =>
        /\ \A i \in 1..Len(FaqItems) : StoredRecord(FaqItems[i]) \in col
        /\ \A i \in 1..Len(TicketItems) : StoredRecord(TicketItems[i]) \in col

\* C24: a hit carries stale = true exactly when the record was upserted with
\* stale = true; a record upserted with stale = false or with no stale key
\* comes back with stale = false.
C24_StaleRoundTrip ==
    (QueryCalled /\ ~IsRaise(kout)) =>
        \A i \in 1..Len(kout.value) :
          \A item \in ItemPool :
            item[2].source_id = kout.value[i].metadata.source_id
                => kout.value[i].metadata.stale = Get(item[2], "stale", FALSE)

C24_Witness ==
    /\ QueryCalled
    /\ ~IsRaise(kout)
    /\ Len(kout.value) = 3
    /\ \E i \in 1..3 : /\ kout.value[i].metadata.source_id = "ticket-2"
                       /\ kout.value[i].metadata.stale = TRUE
    /\ \E i \in 1..3 : /\ kout.value[i].metadata.source_id = "ticket-1"
                       /\ kout.value[i].metadata.stale = FALSE
    /\ \E i \in 1..3 : /\ kout.value[i].metadata.source_id = "faq-reset"
                       /\ kout.value[i].metadata.stale = FALSE

====
